---- MODULE Spec2Model ----
(***************************************************************************)
(* Model of src/lru_cache.py: the closure built by lru_cache(func,         *)
(* maxsize) -- an OrderedDict `cache`, the counters `hits` and `misses`,   *)
(* the wrapper `inner` and the helper add_to_cache.                        *)
(*                                                                         *)
(* The OrderedDict is a sequence of <<key, value>> pairs with distinct     *)
(* keys; position 1 is the least-recently-used end (the end popitem(       *)
(* last=False) pops), position Len is the most-recently-used end.          *)
(***************************************************************************)
EXTENDS Integers, Sequences, FiniteSets, TLC

\* ------------------------------------------------------------------ bounds
NumKeys == 3        \* first arguments (the keys) are 1..NumKeys
MaxArgs == 2        \* inner is called with 0..MaxArgs positional arguments
MaxSize == 2        \* maxsize is drawn from -1..MaxSize
MaxCalls == 5       \* calls to inner per behaviour
MaxDepth == 2       \* calls of inner nested inside one another through func
MaxNestedCalls == 4 \* calls to inner per behaviour when func calls inner again
MaxThreadCalls == 5 \* calls to inner by the two callers together, per behaviour

ArgValues == 1..NumKeys
MaxSizes == -1..MaxSize

\* The argument tuples inner is called with: the empty tuple, and every first
\* argument followed by up to MaxArgs - 1 further arguments.  inner never reads
\* the further arguments (it only hands them to func), so they all take one
\* value: tuples with the same first argument differ by their length.
ArgTuples ==
    {<<>>} \cup {[i \in 1..n |-> IF i = 1 THEN k ELSE 1] :
                    k \in ArgValues, n \in 1..MaxArgs}

\* ------------------------------------------------------------- the program
VARIABLES
    maxsize,    \* lru_cache's parameter, fixed at construction
    cache,      \* the OrderedDict: sequence of <<key, value>>, LRU end first
    hits,       \* nonlocal counter
    misses,     \* nonlocal counter
    \* ---- observations of the calls made (history, not program state)
    calls,      \* number of calls to inner started so far
    args,       \* the argument tuple of the latest call
    outcome,    \* "none" before the first call, then "returned" or "raised"
    result,     \* what the latest call returned (None when it raised)
    raises,     \* number of calls in which func raised
    funcCalls,  \* how many times the latest call invoked func
    evicted,    \* the keys the latest call popped from the cache
    recent,     \* keys of the successful keyed calls, each once, oldest request first
    info,       \* what cache_info returned, when it was called since the latest call of inner
    \* ---- func calling inner again (SpecReentrant)
    stack,      \* argument tuples of the calls that are inside func, outermost first
    inside,     \* calls that returned inside the current or latest outermost call
    \* ---- two callers without a lock (SpecThreads)
    pc,         \* per caller: the statement of inner or add_to_cache it executes next
    targs,      \* per caller: the local args of its call
    tval,       \* per caller: the local result of its call
    failed      \* how often each dict operation raised KeyError so far

\* what the single caller observes of its calls
seen == <<args, outcome, result, raises, funcCalls, evicted, recent, info>>
\* the variables of the re-entrant calls
nest == <<stack, inside>>
\* the variables of the two callers
thr == <<pc, targs, tval, failed>>

vars == <<maxsize, cache, hits, misses, calls, seen, nest, thr>>

\* the two callers
Threads == {1, 2}
\* the dict operations that can raise KeyError: cache[key],
\* cache.move_to_end(key) and cache.popitem(last=False)
DictOps == {"getitem", "move_to_end", "popitem"}

\* Python's None: what inner returns when its loop body never runs, and the
\* value of `result` when no value was returned.
None == 0

\* The wrapped function: deterministic, and distinct argument tuples give
\* distinct results (the tuple read as a number in base NumKeys + 1), none of
\* them None.
RECURSIVE func(_)
func(a) == IF Len(a) = 0 THEN NumKeys + 1
           ELSE func(SubSeq(a, 1, Len(a) - 1)) * (NumKeys + 1) + a[Len(a)]

\* ---- OrderedDict primitives
KeysOf(c) == [i \in 1..Len(c) |-> c[i][1]]
KeySet(c) == {c[i][1] : i \in 1..Len(c)}
Contains(c, key) == key \in KeySet(c)
IndexOf(c, key) == CHOOSE i \in 1..Len(c) : c[i][1] = key
\* the value read at the least-recently-used end instead of at the key
GetItemOldest(c, key) == c[1][2]

GetItem(c, key) == c[IndexOf(c, key)][2]

\* a store that appends without looking for the key
SetItemAppend(c, key, value) == Append(c, <<key, value>>)

\* cache[key] = value: an existing key keeps its position, a new one is appended
SetItem(c, key, value) ==
    IF Contains(c, key)
    THEN [c EXCEPT ![IndexOf(c, key)] = <<key, value>>]
    ELSE Append(c, <<key, value>>)

\* sequence s without its i-th element
RemoveAt(s, i) == SubSeq(s, 1, i - 1) \o SubSeq(s, i + 1, Len(s))

\* move_to_end left out: the key stays where it is
move_to_end_skipped(c, key) == c

\* move_to_end(key, last=False): the key goes to the least-recently-used end
move_to_end_front(c, key) ==
    LET i == IndexOf(c, key) IN <<c[i]>> \o RemoveAt(c, i)

\* cache.move_to_end(key), key present
move_to_end(c, key) ==
    LET i == IndexOf(c, key) IN Append(RemoveAt(c, i), c[i])

\* popitem(last=True): the most recently used entry is popped
popitem_last(c) == SubSeq(c, 1, Len(c) - 1)

\* cache.popitem(last=False), cache not empty: the dict left, and the key popped
popitem(c) == Tail(c)
popitem_key(c) == Head(c)[1]

\* add_to_cache evicting one entry too late (len(cache) > maxsize + 1)
add_to_cache_late(m, c, key, value) ==
    LET c2 == move_to_end(SetItem(c, key, value), key)
    IN  IF Len(c2) > m + 1 THEN popitem(c2) ELSE c2

\* add_to_cache evicting one entry too early (len(cache) >= maxsize)
add_to_cache_early(m, c, key, value) ==
    LET c2 == move_to_end(SetItem(c, key, value), key)
    IN  IF Len(c2) >= m THEN popitem(c2) ELSE c2

\* add_to_cache(maxsize, cache, key, value): the dict it leaves
add_to_cache(m, c, key, value) ==
    LET c1 == SetItem(c, key, value)
        c2 == move_to_end(c1, key)
    IN  IF Len(c2) > m THEN popitem(c2) ELSE c2

\* the keys add_to_cache pops
add_to_cache_evicts(m, c, key, value) ==
    LET c2 == move_to_end(SetItem(c, key, value), key)
    IN  IF Len(c2) > m THEN {popitem_key(c2)} ELSE {}

\* the miss counted only after func returned: nothing counted when it raises
MissesAfterRaiseUncounted(m) == m

\* misses after `misses += 1` ran and func then raised
MissesAfterRaise(m) == m + 1

\* the entry stored before func is called: a raise leaves it behind
CacheAfterRaiseStale(c, key) == Append(c, <<key, None>>)

\* the dict after func raised: add_to_cache on the next line never runs
CacheAfterRaise(c, key) == c

\* `recent` after a successful call for key
Touch(r, key) == Append(SelectSeq(r, LAMBDA x : x # key), key)

\* no value of cache_info at hand
NoInfo == <<>>

\* a cache_info that reports the misses as hits and the hits as misses
CacheInfoSwapped(h, m, size, c) == <<m, h, size, Len(c)>>

\* CacheInfo(hits, misses, maxsize, len(cache))
CacheInfo(h, m, size, c) == <<h, m, size, Len(c)>>

Init ==
    /\ maxsize \in MaxSizes
    /\ cache = <<>>
    /\ hits = 0
    /\ misses = 0
    /\ calls = 0
    /\ args = <<>>
    /\ outcome = "none"
    /\ result = None
    /\ raises = 0
    /\ funcCalls = 0
    /\ evicted = {}
    /\ recent = <<>>
    /\ info = NoInfo
    /\ stack = <<>>
    /\ inside = 0
    /\ pc = [t \in Threads |-> "idle"]
    /\ targs = [t \in Threads |-> <<>>]
    /\ tval = [t \in Threads |-> None]
    /\ failed = [op \in DictOps |-> 0]

\* inner called with no argument: the loop body never runs, inner returns None
inner_no_args(a) ==
    /\ Len(a) = 0
    /\ calls < MaxCalls
    /\ calls' = calls + 1
    /\ args' = a
    /\ outcome' = "returned"
    /\ result' = None
    /\ funcCalls' = 0
    /\ evicted' = {}
    /\ UNCHANGED <<maxsize, cache, hits, misses, raises, recent>>
    /\ info' = NoInfo
    /\ UNCHANGED <<nest, thr>>

\* inner called with the tuple a, first argument not in cache, func returns
inner_miss(a) ==
    /\ Len(a) > 0
    /\ calls < MaxCalls
    /\ ~Contains(cache, a[1])
    /\ misses' = misses + 1
    /\ result' = func(a)
    /\ funcCalls' = 1
    /\ cache' = add_to_cache(maxsize, cache, a[1], func(a))
    /\ evicted' = add_to_cache_evicts(maxsize, cache, a[1], func(a))
    /\ calls' = calls + 1
    /\ args' = a
    /\ outcome' = "returned"
    /\ recent' = Touch(recent, a[1])
    /\ UNCHANGED <<maxsize, hits, raises>>
    /\ info' = NoInfo
    /\ UNCHANGED <<nest, thr>>

\* inner called with the tuple a, first argument not in cache, func raises
inner_miss_raise(a) ==
    /\ Len(a) > 0
    /\ calls < MaxCalls
    /\ ~Contains(cache, a[1])
    /\ misses' = MissesAfterRaise(misses)
    /\ funcCalls' = 1
    /\ cache' = CacheAfterRaise(cache, a[1])
    /\ evicted' = {}
    /\ calls' = calls + 1
    /\ args' = a
    /\ outcome' = "raised"
    /\ result' = None
    /\ raises' = raises + 1
    /\ UNCHANGED <<maxsize, hits, recent>>
    /\ info' = NoInfo
    /\ UNCHANGED <<nest, thr>>

\* inner called with the tuple a, first argument in cache
inner_hit(a) ==
    /\ Len(a) > 0
    /\ calls < MaxCalls
    /\ Contains(cache, a[1])
    /\ hits' = hits + 1
    /\ result' = GetItem(cache, a[1])
    /\ funcCalls' = 0
    /\ cache' = add_to_cache(maxsize, cache, a[1], GetItem(cache, a[1]))
    /\ evicted' = add_to_cache_evicts(maxsize, cache, a[1], GetItem(cache, a[1]))
    /\ calls' = calls + 1
    /\ args' = a
    /\ outcome' = "returned"
    /\ recent' = Touch(recent, a[1])
    /\ UNCHANGED <<maxsize, misses, raises>>
    /\ info' = NoInfo
    /\ UNCHANGED <<nest, thr>>

\* one call of inner, whatever its arguments and whatever func does
inner(a) ==
    \/ inner_no_args(a)
    \/ inner_miss(a)
    \/ inner_miss_raise(a)
    \/ inner_hit(a)

\* inner.cache_info()
cache_info ==
    /\ info' = CacheInfo(hits, misses, maxsize, cache)
    /\ UNCHANGED <<maxsize, cache, hits, misses, calls, args, outcome, result,
                   raises, funcCalls, evicted, recent, nest, thr>>

Next == (\E a \in ArgTuples : inner(a)) \/ cache_info

Spec == Init /\ [][Next]_vars

\* --------------------------------------------------- func calling inner again
\* func, while it computes a missed key, may call inner on the same cache for
\* other keys (memoized recursion).  A miss is then two steps: up to the call
\* of func, and from func's return on; the calls func makes happen in between.
\* func does not raise here.
StackKeys == {stack[i][1] : i \in 1..Len(stack)}

\* a call that returns while the stack is not empty returned inside a call
Returned(n) == IF stack = <<>> THEN n ELSE n + 1

\* inner called with no argument, by the caller or by func
nested_no_args(a) ==
    /\ Len(a) = 0
    /\ calls < MaxNestedCalls
    /\ calls' = calls + 1
    /\ args' = a
    /\ outcome' = "returned"
    /\ result' = None
    /\ funcCalls' = 0
    /\ evicted' = {}
    /\ inside' = Returned(inside)
    /\ UNCHANGED <<maxsize, cache, hits, misses, raises, recent, info, stack>>
    /\ UNCHANGED thr

\* inner called with the tuple a, first argument in cache, by the caller or by func
nested_hit(a) ==
    /\ Len(a) > 0
    /\ calls < MaxNestedCalls
    /\ Contains(cache, a[1])
    /\ hits' = hits + 1
    /\ result' = GetItem(cache, a[1])
    /\ funcCalls' = 0
    /\ cache' = add_to_cache(maxsize, cache, a[1], GetItem(cache, a[1]))
    /\ evicted' = add_to_cache_evicts(maxsize, cache, a[1], GetItem(cache, a[1]))
    /\ calls' = calls + 1
    /\ args' = a
    /\ outcome' = "returned"
    /\ recent' = Touch(recent, a[1])
    /\ inside' = Returned(inside)
    /\ UNCHANGED <<maxsize, misses, raises, info, stack>>
    /\ UNCHANGED thr

\* inner called with the tuple a, first argument not in cache and not being
\* computed: the miss is counted and func is entered
nested_miss_enter(a) ==
    /\ Len(a) > 0
    /\ calls < MaxNestedCalls
    /\ Len(stack) < MaxDepth
    /\ ~Contains(cache, a[1])
    /\ a[1] \notin StackKeys
    /\ misses' = misses + 1
    /\ calls' = calls + 1
    /\ stack' = Append(stack, a)
    /\ inside' = IF stack = <<>> THEN 0 ELSE inside
    /\ outcome' = "computing"
    /\ UNCHANGED <<maxsize, cache, hits, args, result, raises, funcCalls,
                   evicted, recent, info>>
    /\ UNCHANGED thr

\* func returns to the innermost pending call, which stores the result and returns
nested_miss_return ==
    /\ stack # <<>>
    /\ LET a == stack[Len(stack)] IN
        /\ result' = func(a)
        /\ cache' = add_to_cache(maxsize, cache, a[1], func(a))
        /\ evicted' = add_to_cache_evicts(maxsize, cache, a[1], func(a))
        /\ args' = a
        /\ recent' = Touch(recent, a[1])
    /\ funcCalls' = 1
    /\ outcome' = "returned"
    /\ stack' = SubSeq(stack, 1, Len(stack) - 1)
    /\ inside' = IF Len(stack) > 1 THEN inside + 1 ELSE inside
    /\ UNCHANGED <<maxsize, hits, misses, calls, raises, info>>
    /\ UNCHANGED thr

NextReentrant ==
    \/ \E a \in ArgTuples : nested_no_args(a) \/ nested_hit(a) \/ nested_miss_enter(a)
    \/ nested_miss_return

SpecReentrant == Init /\ [][NextReentrant]_vars

\* ------------------------------------------------- two callers without a lock
\* Each caller runs inner one statement at a time; the statements of the two
\* callers interleave freely.  A caller's pc names the statement it executes
\* next: "count_miss" (misses += 1), "call_func" (result = func(*args)),
\* "count_hit" (hits += 1), "read" (result = cache[key]), then add_to_cache's
\* "store" (cache[key] = value), "move" (cache.move_to_end(key)), "test_len"
\* (if len(cache) > maxsize) and "pop" (cache.popitem(last=False)).  A dict
\* operation that raises KeyError ends the call.  func does not raise here.
Idle(t) == pc[t] = "idle"
Quiescent == \A t \in Threads : Idle(t)

\* the caller's call is over: its locals are gone
Leave(t) ==
    /\ pc' = [pc EXCEPT ![t] = "idle"]
    /\ targs' = [targs EXCEPT ![t] = <<>>]
    /\ tval' = [tval EXCEPT ![t] = None]

\* The argument tuples of the two callers: at most one argument (the statements
\* of inner treat further arguments as the single caller's calls do).
ThreadArgs == {a \in ArgTuples : Len(a) <= 1}

\* the dict operation op raised KeyError
Raise(op) == failed' = [failed EXCEPT ![op] = @ + 1]

\* the test made one entry too early (len(cache) >= maxsize)
TooLongEarly(c, m) == Len(c) >= m

\* the test made one entry too late (len(cache) > maxsize + 1)
TooLongLate(c, m) == Len(c) > m + 1

\* len(cache) > maxsize
TooLong(c, m) == Len(c) > m

Goto(t, label) == pc' = [pc EXCEPT ![t] = label] /\ UNCHANGED <<targs, tval>>

\* inner called with no argument: nothing runs
t_no_args(t) ==
    /\ Idle(t)
    /\ calls < MaxThreadCalls
    /\ calls' = calls + 1
    /\ UNCHANGED <<maxsize, cache, hits, misses, seen, nest, thr>>

\* inner called with the tuple a: `key not in cache` is evaluated
t_test_key(t, a) ==
    /\ Idle(t)
    /\ Len(a) > 0
    /\ calls < MaxThreadCalls
    /\ calls' = calls + 1
    /\ targs' = [targs EXCEPT ![t] = a]
    /\ pc' = [pc EXCEPT ![t] =
                IF Contains(cache, a[1]) THEN "count_hit" ELSE "count_miss"]
    /\ UNCHANGED <<maxsize, cache, hits, misses, seen, nest, tval, failed>>

\* misses += 1
t_count_miss(t) ==
    /\ pc[t] = "count_miss"
    /\ misses' = misses + 1
    /\ Goto(t, "call_func")
    /\ UNCHANGED <<maxsize, cache, hits, calls, seen, nest, failed>>

\* result = func(*args)
t_call_func(t) ==
    /\ pc[t] = "call_func"
    /\ tval' = [tval EXCEPT ![t] = func(targs[t])]
    /\ pc' = [pc EXCEPT ![t] = "store"]
    /\ UNCHANGED <<maxsize, cache, hits, misses, calls, seen, nest, targs, failed>>

\* hits += 1
t_count_hit(t) ==
    /\ pc[t] = "count_hit"
    /\ hits' = hits + 1
    /\ Goto(t, "read")
    /\ UNCHANGED <<maxsize, cache, misses, calls, seen, nest, failed>>

\* result = cache[key]: KeyError when the key is no longer there
t_read(t) ==
    /\ pc[t] = "read"
    /\ IF Contains(cache, targs[t][1])
       THEN /\ tval' = [tval EXCEPT ![t] = GetItem(cache, targs[t][1])]
            /\ pc' = [pc EXCEPT ![t] = "store"]
            /\ UNCHANGED <<targs, failed>>
       ELSE /\ Raise("getitem")
            /\ Leave(t)
    /\ UNCHANGED <<maxsize, cache, hits, misses, calls, seen, nest>>

\* add_to_cache: cache[key] = value
t_store(t) ==
    /\ pc[t] = "store"
    /\ cache' = SetItem(cache, targs[t][1], tval[t])
    /\ Goto(t, "move")
    /\ UNCHANGED <<maxsize, hits, misses, calls, seen, nest, failed>>

\* add_to_cache: cache.move_to_end(key): KeyError when the key is not there
t_move(t) ==
    /\ pc[t] = "move"
    /\ IF Contains(cache, targs[t][1])
       THEN /\ cache' = move_to_end(cache, targs[t][1])
            /\ Goto(t, "test_len")
            /\ UNCHANGED failed
       ELSE /\ Raise("move_to_end")
            /\ Leave(t)
            /\ UNCHANGED cache
    /\ UNCHANGED <<maxsize, hits, misses, calls, seen, nest>>

\* add_to_cache: if len(cache) > maxsize; when it is not, inner returns
t_test_len(t) ==
    /\ pc[t] = "test_len"
    /\ IF TooLong(cache, maxsize) THEN Goto(t, "pop") ELSE Leave(t)
    /\ UNCHANGED <<maxsize, cache, hits, misses, calls, seen, nest, failed>>

\* add_to_cache: cache.popitem(last=False): KeyError when the dict is empty;
\* then inner returns
t_pop(t) ==
    /\ pc[t] = "pop"
    /\ IF cache # <<>>
       THEN cache' = popitem(cache) /\ UNCHANGED failed
       ELSE Raise("popitem") /\ UNCHANGED cache
    /\ Leave(t)
    /\ UNCHANGED <<maxsize, hits, misses, calls, seen, nest>>

NextThreads ==
    \E t \in Threads :
        \/ t_no_args(t)
        \/ \E a \in ThreadArgs : t_test_key(t, a)
        \/ t_count_miss(t)
        \/ t_call_func(t)
        \/ t_count_hit(t)
        \/ t_read(t)
        \/ t_store(t)
        \/ t_move(t)
        \/ t_test_len(t)
        \/ t_pop(t)

SpecThreads == Init /\ [][NextThreads]_vars

\* ------------------------------------------------------------------ claims
\* a step that is a call of inner
IsCall == calls' = calls + 1
\* ... with at least one argument; its key is the first one
IsKeyedCall == IsCall /\ Len(args') > 0
CallKey == args'[1]

\* the last n elements of r, as a set
LastN(r, n) == {r[i] : i \in {j \in 1..Len(r) : j > Len(r) - n}}
Position(r, k) == CHOOSE i \in 1..Len(r) : r[i] = k
\* the resident key whose latest successful request is the oldest
OldestResident(c, r) ==
    CHOOSE k \in KeySet(c) :
        \A j \in KeySet(c) \ {k} : Position(r, k) < Position(r, j)
\* the <<key, value>> entries of c, as a set
Items(c) == {c[i] : i \in 1..Len(c)}
\* the keys of c in order, k left out
OthersInOrder(c, k) == SelectSeq(KeysOf(c), LAMBDA x : x # k)

\* C1: for maxsize >= 1, after every completed call the cache holds at most
\* maxsize entries (cache_info().currsize <= maxsize).
C1_CapacityInvariant == maxsize >= 1 => Len(cache) <= maxsize

\* a full cache from which the latest call evicted an entry
C1_Witness == maxsize >= 1 /\ Len(cache) = maxsize /\ evicted # {}

\* C2: every call that returns, after any history, returns func applied to
\* its full argument tuple, so calls with different tuples share no entry.
\* Stated for the calls that have a key (at least one argument); the call
\* without arguments is the case of C8.
C2_ReturnsFuncOfArgs ==
    (outcome = "returned" /\ Len(args) > 0) => result = func(args)

\* C3: a miss that returns into a full cache (maxsize >= 1) evicts exactly one
\* entry, the resident key whose latest access is the oldest, and every other
\* resident key stays.
C3_LRUEviction ==
    [][(IsKeyedCall /\ maxsize >= 1 /\ Len(cache) = maxsize
            /\ ~Contains(cache, CallKey) /\ outcome' = "returned")
        => /\ evicted' = {OldestResident(cache, recent)}
           /\ KeySet(cache') = (KeySet(cache) \cup {CallKey}) \ evicted'
           /\ Len(cache') = Len(cache)]_vars

\* maxsize 2 and the calls A, B, A, C: B was evicted, A and C are resident
C3_Witness ==
    /\ maxsize = 2 /\ calls = 4 /\ hits = 1 /\ misses = 3 /\ raises = 0
    /\ evicted = {2} /\ KeysOf(cache) = <<1, 3>>

\* C4: for maxsize >= 1 a call with key k is counted as a hit exactly when k
\* is among the maxsize most recently requested distinct keys of the earlier
\* successful calls, and as a miss otherwise.
C4_HitIffRecent ==
    [][(IsKeyedCall /\ maxsize >= 1)
        => IF CallKey \in LastN(recent, maxsize)
           THEN hits' = hits + 1 /\ misses' = misses
           ELSE misses' = misses + 1 /\ hits' = hits]_vars

\* every call succeeded, there was a hit, and some key was missed twice (it
\* had been evicted in between)
C4_Witness ==
    /\ maxsize >= 1 /\ raises = 0 /\ hits >= 1 /\ hits + misses = calls
    /\ misses > Len(recent)

\* C5: a call whose key is resident does not invoke func, returns the value
\* stored for the key and leaves the size unchanged; so func is only ever
\* invoked for a key that is not resident.
C5_IdempotentHit ==
    [][(IsKeyedCall /\ Contains(cache, CallKey))
        => /\ funcCalls' = 0
           /\ outcome' = "returned"
           /\ <<CallKey, result'>> \in Items(cache)
           /\ Len(cache') = Len(cache)]_vars

\* a second hit, in a full cache of at least two entries
C5_Witness ==
    /\ outcome = "returned" /\ Len(args) > 0 /\ funcCalls = 0
    /\ hits >= 2 /\ Len(cache) = maxsize /\ Len(cache) >= 2

\* C6: a hit on resident key k puts k at the most-recently-used end and keeps
\* the set of resident keys, every stored value and the order of the other keys.
C6_HitMovesKeyToEnd ==
    [][(IsKeyedCall /\ Contains(cache, CallKey))
        => /\ Len(cache') > 0 /\ cache'[Len(cache')][1] = CallKey
           /\ KeySet(cache') = KeySet(cache)
           /\ Items(cache') = Items(cache)
           /\ OthersInOrder(cache', CallKey) = OthersInOrder(cache, CallKey)]_vars

\* a hit in a cache holding other keys too
C6_Witness ==
    /\ outcome = "returned" /\ Len(args) > 0 /\ funcCalls = 0
    /\ Len(cache) >= 2 /\ cache[Len(cache)][1] = args[1]

\* C7: for maxsize >= 1 a miss whose func returns invokes func once, returns
\* its result and leaves the key at the most-recently-used end with that
\* result; the next call with the same key is a hit returning it.
C7_MissInserts ==
    [][/\ (IsKeyedCall /\ maxsize >= 1 /\ ~Contains(cache, CallKey)
                /\ outcome' = "returned")
          => /\ funcCalls' = 1
             /\ result' = func(args')
             /\ Len(cache') > 0
             /\ cache'[Len(cache')] = <<CallKey, result'>>
       /\ (IsKeyedCall /\ maxsize >= 1 /\ outcome = "returned"
                /\ funcCalls = 1 /\ CallKey = args[1])
          => /\ hits' = hits + 1 /\ misses' = misses
             /\ funcCalls' = 0
             /\ result' = result]_vars

\* a miss into a full cache, its key now at the most-recently-used end
C7_Witness ==
    /\ maxsize >= 1 /\ outcome = "returned" /\ funcCalls = 1
    /\ evicted # {} /\ cache[Len(cache)][1] = args[1]

\* C8: every call, with any number of arguments, changes exactly one of hits
\* and misses, by one: hits + misses is the number of calls made so far.
C8_StatsCountCalls == maxsize >= 1 => hits + misses = calls

\* C9: when func raises during a miss for key k the call raises and the cache
\* (keys, values, order, size) is what it was before the call; k stays absent.
C9_RaiseLeavesCache ==
    [][(IsKeyedCall /\ outcome' = "raised")
        => /\ funcCalls' = 1
           /\ ~Contains(cache, CallKey)
           /\ cache' = cache
           /\ ~Contains(cache', CallKey)]_vars

\* func raised in a call made on a full cache
C9_Witness == outcome = "raised" /\ maxsize >= 1 /\ Len(cache) = maxsize

\* C10: a call in which func raises leaves hits unchanged and adds one to
\* misses; a call with the same key right after it is a miss again.
C10_PhantomMiss ==
    [][/\ (IsCall /\ outcome' = "raised")
          => hits' = hits /\ misses' = misses + 1
       /\ (IsKeyedCall /\ outcome = "raised" /\ CallKey = args[1])
          => hits' = hits /\ misses' = misses + 1]_vars

\* two calls, func raised in both
C10_Witness == outcome = "raised" /\ raises = 2 /\ calls = 2 /\ misses = 2

\* C11: with maxsize = 1, after every call with a key that returned the cache
\* holds exactly that key; so after K1 then K2 only K2 is resident, and a call
\* with any other key than the resident one is a miss.
C11_SingleCapacity ==
    /\ [](maxsize = 1 /\ outcome = "returned" /\ Len(args) > 0
            => KeysOf(cache) = <<args[1]>>)
    /\ [][(IsKeyedCall /\ maxsize = 1 /\ outcome = "returned" /\ Len(args) > 0
                /\ CallKey # args[1])
            => misses' = misses + 1 /\ hits' = hits]_vars

\* maxsize 1 and the calls K1, K2, K1, all misses: K1 is back, K2 evicted
C11_Witness ==
    /\ maxsize = 1 /\ calls = 3 /\ misses = 3 /\ hits = 0 /\ raises = 0
    /\ recent = <<2, 1>> /\ KeysOf(cache) = <<1>> /\ evicted = {2}

\* a step that is a call of cache_info
IsCacheInfo == calls' = calls /\ info' # NoInfo

\* C12: cache_info returns (hits, misses, maxsize, number of resident entries)
\* and changes neither the counters nor the cache; maxsize never changes.
C12_CacheInfoReadOnly ==
    [][/\ maxsize' = maxsize
       /\ IsCacheInfo
          => /\ info' = <<hits, misses, maxsize, Cardinality(KeySet(cache))>>
             /\ cache' = cache /\ hits' = hits /\ misses' = misses]_vars

\* cache_info called after A, B, A, C on maxsize 2: (1, 3, 2, 2)
C12_Witness == info = <<1, 3, 2, 2>> /\ evicted # {}

\* C13: a cache built with maxsize <= 0 is rejected at construction: no call
\* of inner or of cache_info is ever made on one.
C13_InvalidCapacityRejected ==
    maxsize <= 0 => outcome = "none" /\ info = NoInfo

\* C14: between calls no key occurs twice in the cache (the keys stored are
\* the keys ordered, each once) and the size cache_info reports is their number.
C14_StorageRecencyConsistent ==
    /\ Cardinality(KeySet(cache)) = Len(cache)
    /\ info # NoInfo => info[4] = Cardinality(KeySet(cache))

\* two keys resident after a hit, and cache_info called
C14_Witness == Len(cache) >= 2 /\ hits >= 1 /\ info # NoInfo

\* C15: for maxsize >= 1 a key stops being resident only in a returning miss
\* on another key made on a full cache, and then it is the only key removed.
C15_OnlyEvictionRemoves ==
    [][(maxsize >= 1 /\ KeySet(cache) \ KeySet(cache') # {})
        => /\ IsKeyedCall
           /\ ~Contains(cache, CallKey)
           /\ Len(cache) = maxsize
           /\ Cardinality(KeySet(cache) \ KeySet(cache')) = 1
           /\ CallKey \notin KeySet(cache) \ KeySet(cache')
           /\ Contains(cache', CallKey)]_vars

\* a miss evicted a key from a cache in which there had been a hit
C15_Witness ==
    /\ maxsize >= 1 /\ outcome = "returned" /\ funcCalls = 1 /\ hits >= 1
    /\ evicted # {} /\ evicted \cap KeySet(cache) = {}

\* C16: for maxsize <= 0 every call with a key is a miss that invokes func;
\* unless func raises it returns func's result and evicts the entry it just
\* inserted; the cache is empty after every call and hits stays 0.
C16_NonPositiveMaxsize ==
    /\ [](maxsize <= 0 => cache = <<>> /\ hits = 0)
    /\ [][(IsKeyedCall /\ maxsize <= 0)
            => /\ misses' = misses + 1 /\ hits' = hits
               /\ funcCalls' = 1
               /\ raises' = raises
                  => /\ outcome' = "returned"
                     /\ result' = func(args')
                     /\ evicted' = {CallKey}]_vars

\* maxsize 0: a second returning call, its entry evicted at once
C16_Witness ==
    /\ maxsize = 0 /\ outcome = "returned" /\ funcCalls = 1 /\ misses >= 2
    /\ raises = 0 /\ evicted = {args[1]}

\* C17: when func calls inner for other keys while it computes a miss, every
\* call that returns leaves at most maxsize entries (maxsize >= 1), and when
\* the outermost call returns its key is at the most-recently-used end with
\* the value it returned.
C17_ReentrantCompute ==
    /\ (maxsize >= 1 /\ outcome = "returned") => Len(cache) <= maxsize
    /\ (maxsize >= 1 /\ outcome = "returned" /\ stack = <<>> /\ Len(args) > 0)
        => Len(cache) > 0 /\ cache[Len(cache)] = <<args[1], result>>

\* an outermost miss returned into a full cache after two calls returned inside it
C17_Witness ==
    /\ maxsize >= 1 /\ outcome = "returned" /\ stack = <<>> /\ funcCalls = 1
    /\ inside >= 2 /\ Len(cache) = maxsize /\ evicted # {}

\* C18: with two callers interleaved statement by statement, move_to_end
\* always finds its key and popitem never runs on an empty cache.
C18_NoInternalFailure ==
    failed["move_to_end"] = 0 /\ failed["popitem"] = 0

\* C18 as amended: with two callers and maxsize >= 1 popitem never runs on an
\* empty cache (move_to_end, as the trace of C18_NoInternalFailure shows, can
\* miss its key).
C18_PopitemNeverEmpty == maxsize >= 1 => failed["popitem"] = 0

\* both callers are about to pop, from a cache of two entries
C18_Witness ==
    /\ maxsize >= 1 /\ \A t \in Threads : pc[t] = "pop"
    /\ Len(cache) = 2

\* C19: with two callers and maxsize >= 1, whenever no call is in progress
\* the cache holds at most maxsize entries.
C19_QuiescentCapacity ==
    (maxsize >= 1 /\ Quiescent) => Len(cache) <= maxsize

\* C19 as amended: with two callers and maxsize >= 1, whenever no call is in
\* progress the cache holds at most maxsize entries plus one for every call
\* that ended with KeyError in move_to_end.
C19_QuiescentCapacityUpToFailures ==
    (maxsize >= 1 /\ Quiescent) => Len(cache) <= maxsize + failed["move_to_end"]

\* no call in progress, one call failed in move_to_end, one entry too many
C19_Witness ==
    /\ maxsize >= 1 /\ Quiescent /\ failed["move_to_end"] = 1
    /\ Len(cache) = maxsize + 1

====
